---- MODULE Spec2Model ----
\* A model of eurozulu/mainline: the values coercion engine (values/values.go),
\* the flag registry (flags/flags.go) and the command dispatcher (Commands.Run).
\*
\* Go strings are modelled as sequences of one-character strings, so that
\* HasPrefix, TrimLeft, Split and Join are computed, not assumed.
\* Go slice indices start at 0, the sequences here at 1.
EXTENDS Integers, Sequences, FiniteSets, TLC

\* ---------------------------------------------------------------- bounds

\* longest argument list handed to one Apply / Run call
MaxArgs == 3
\* longest positional stream the registry is let to accumulate
MaxParams == 3
\* most names given to one AddFlag call
MaxNames == 2
\* longest token handed to ValueFromString in the coercion specification
MaxLen == 5

\* ---------------------------------------------------------------- strings

\* strings.HasPrefix
HasPrefix(s, p) ==
    Len(s) >= Len(p) /\ SubSeq(s, 1, Len(p)) = p

\* strings.TrimLeft(s, c) for a one-character cutset
RECURSIVE TrimLeft(_, _)
TrimLeft(s, c) ==
    IF Len(s) > 0 /\ Head(s) = c THEN TrimLeft(Tail(s), c) ELSE s

\* strings.Join([]string{a, b}, "")
Join2(a, b) ==
    a \o b

\* strings.Split(s, sep) for a one-character separator: always at least one
\* element, Split("", sep) is the one-element list holding the empty string
RECURSIVE Split(_, _)
Split(s, sep) ==
    IF Len(s) = 0 THEN << <<>> >>
    ELSE IF Head(s) = sep THEN << <<>> >> \o Split(Tail(s), sep)
    ELSE LET r == Split(Tail(s), sep)
         IN  << <<Head(s)>> \o Head(r) >> \o Tail(r)

\* unicode simple case folding, on the letters the model uses
Fold(c) ==
    CASE c = "G" -> "g"
      [] c = "B" -> "b"
      [] c = "W" -> "w"
      [] c = "U" -> "u"
      [] c = "I" -> "i"
      [] c = "L" -> "l"
      [] c = "D" -> "d"
      [] OTHER -> c

\* mutant of EqualFold: the comparison minds the case
EqualExact(a, b) ==
    a = b

\* strings.EqualFold
EqualFold(a, b) ==
    /\ Len(a) = Len(b)
    /\ \A k \in 1..Len(a) : Fold(a[k]) = Fold(b[k])

Digits == {"0", "1", "2", "3"}

DigitVal(c) ==
    CASE c = "0" -> 0
      [] c = "1" -> 1
      [] c = "2" -> 2
      [] c = "3" -> 3
      [] OTHER -> 0

RECURSIVE DecimalVal(_, _)
DecimalVal(s, acc) ==
    IF Len(s) = 0 THEN acc ELSE DecimalVal(Tail(s), acc * 10 + DigitVal(Head(s)))

\* strconv.ParseInt(s, 10, 64): an optional sign and at least one digit
\* (tokens are at most a few characters, far from the 64-bit range)
ParseInt(s) ==
    LET signed == Len(s) > 0 /\ Head(s) \in {"+", "-"}
        body   == IF signed THEN Tail(s) ELSE s
    IN  IF Len(body) > 0 /\ \A k \in 1..Len(body) : body[k] \in Digits
        THEN [ok |-> TRUE,
              val |-> IF signed /\ Head(s) = "-" THEN 0 - DecimalVal(body, 0)
                      ELSE DecimalVal(body, 0)]
        ELSE [ok |-> FALSE, val |-> 0]

BoolTrueLits ==
    { <<"1">>, <<"t">>, <<"T">>, <<"T","R","U","E">>, <<"t","r","u","e">>,
      <<"T","r","u","e">> }

BoolFalseLits ==
    { <<"0">>, <<"f">>, <<"F">>, <<"F","A","L","S","E">>,
      <<"f","a","l","s","e">>, <<"F","a","l","s","e">> }

\* strconv.ParseBool
ParseBool(s) ==
    IF s \in BoolTrueLits THEN [ok |-> TRUE, val |-> TRUE]
    ELSE IF s \in BoolFalseLits THEN [ok |-> TRUE, val |-> FALSE]
    ELSE [ok |-> FALSE, val |-> FALSE]

\* strconv.ParseFloat(s, 64) on the decimal literals the alphabet can spell:
\* a literal without fraction or exponent, kept as its integer value
ParseFloat(s) ==
    ParseInt(s)

\* ---------------------------------------------------------------- types

\* A reflect.Type is the sequence of its kinds, outermost first:
\* *bool is <<"Ptr","Bool">>, []int is <<"Slice","Int">>.
Kind(t) == Head(t)
Elem(t) == Tail(t)

TBool    == <<"Bool">>
TInt     == <<"Int">>
TInt64   == <<"Int64">>
TFloat64 == <<"Float64">>
TString  == <<"String">>
TMap     == <<"Map">>
TChan    == <<"Chan">>
PtrTo(t)   == <<"Ptr">> \o t
SliceOf(t) == <<"Slice">> \o t

\* the result of a coercion: st is "ok", "err" (an error value is returned)
\* or "panic" (reflect aborts); t is the dynamic type of the returned value
Ok(t, v) == [st |-> "ok", t |-> t, v |-> v]
Failed   == [st |-> "err", t |-> <<>>, v |-> <<>>]
Panicked == [st |-> "panic", t |-> <<>>, v |-> <<>>]

\* ---------------------------------------------------------------- values

SliceDelimiter == ","

\* mutant of boolFromString: the empty token is false
boolFromStringEmptyFalse(s, t) ==
    IF Len(s) = 0 THEN Ok(TBool, FALSE)
    ELSE LET bb == ParseBool(s)
         IN  IF bb.ok THEN Ok(TBool, bb.val) ELSE Failed

\* boolFromString: the empty token is true, any other is parsed
boolFromString(s, t) ==
    IF Len(s) = 0 THEN Ok(TBool, TRUE)
    ELSE LET bb == ParseBool(s)
         IN  IF bb.ok THEN Ok(TBool, bb.val) ELSE Failed

\* intFromString (the time.Duration case apart): whatever the width of t,
\* the value returned is a Go int
intFromString(s, t) ==
    IF Len(s) = 0 THEN Ok(TInt, 0)
    ELSE LET ii == ParseInt(s)
         IN  IF ii.ok THEN Ok(TInt, ii.val) ELSE Failed

\* floatFromString: returns iv.Interface(), a pointer to the new float
floatFromString(s, t) ==
    IF Len(s) = 0 THEN Ok(PtrTo(t), 0)
    ELSE LET fl == ParseFloat(s)
         IN  IF fl.ok THEN Ok(PtrTo(t), fl.val) ELSE Failed

\* stringFromString: the token verbatim
stringFromString(s, t) ==
    Ok(t, s)

\* mapFromString: returns mp.Interface(), a pointer to the map; a non-empty
\* token goes to json.Unmarshal, and no token over the model's alphabet
\* (letters, digits, comma, dash) is a JSON object
mapFromString(s, t) ==
    IF Len(s) = 0 THEN Ok(PtrTo(t), <<>>) ELSE Failed

RECURSIVE ValueFromString(_, _)
RECURSIVE sliceAppend(_, _, _)

\* the loop of sliceFromString over the split parts ss, sv the slice so far
sliceAppend(ss, t, sv) ==
    IF Len(ss) = 0 THEN Ok(t, sv)
    ELSE LET sel == ValueFromString(Head(ss), Elem(t))
             ev  == IF sel.st = "ok" /\ Kind(sel.t) = "Ptr" THEN Elem(sel.t) ELSE sel.t
         IN  IF sel.st = "panic" THEN Panicked
             ELSE IF sel.st = "err" THEN Failed
             \* reflect.Append panics on a value not assignable to the element type
             ELSE IF ev # Elem(t) THEN Panicked
             ELSE sliceAppend(Tail(ss), t, Append(sv, sel.v))

sliceFromString(s, t) ==
    sliceAppend(Split(s, SliceDelimiter), t, <<>>)

\* ValueFromString, on the kinds bool, int, int64, float64, string, slice, map,
\* pointer; every other kind takes the default branch
ValueFromString(v, t) ==
    CASE Kind(t) = "Ptr" ->
           LET r == ValueFromString(v, Elem(t))
           IN  IF r.st # "ok" THEN r
               \* p.Elem().Set panics on a value whose type is not the pointee's
               ELSE IF r.t # Elem(t) THEN Panicked
               ELSE Ok(t, r.v)
      [] Kind(t) = "Slice" -> sliceFromString(v, t)
      [] Kind(t) = "Map" -> mapFromString(v, t)
      [] Kind(t) = "Float64" -> floatFromString(v, t)
      [] Kind(t) \in {"Int64", "Int"} -> intFromString(v, t)
      [] Kind(t) = "Bool" -> boolFromString(v, t)
      [] Kind(t) = "String" -> stringFromString(v, t)
      [] OTHER -> Failed

\* ---------------------------------------------------------------- state

VARIABLES
    IgnoreUnknown,  \* Flags.IgnoreUnknown
    flags,          \* Flags.flags: name -> what the map holds under that name
    mem,            \* the program variables flags are bound to
    call            \* the call that has just returned to the caller, if any

vars == <<IgnoreUnknown, flags, mem, call>>

\* the program variables of the model and their Go types
Locs == {"Verbose", "Count"}

LocType(l) ==
    IF l = "Verbose" THEN TBool ELSE TInt

\* what fs.flags holds: a pointer to a program variable (AddFlag), or, under
\* the empty name, the []string of positional parameters (Apply)
PtrEntry(l)     == [t |-> PtrTo(LocType(l)), loc |-> l, val |-> <<>>]
StreamEntry(ps) == [t |-> SliceOf(TString), loc |-> "", val |-> ps]

EmptyMap == [n \in {} |-> StreamEntry(<<>>)]

\* fs.flags[k] = e
Put(fl, k, e) ==
    [n \in (DOMAIN fl) \cup {k} |-> IF n = k THEN e ELSE fl[n]]

\* Flags.Parameters: the []string under the empty name, nil when there is
\* none; the type assertion v.([]string) panics on anything else
Parameters(fl) ==
    IF <<>> \notin DOMAIN fl THEN Ok(SliceOf(TString), <<>>)
    ELSE IF fl[<<>>].t = SliceOf(TString) THEN Ok(SliceOf(TString), fl[<<>>].val)
    ELSE Panicked

\* values.SetValue(reflect.ValueOf(v), iVal), as Apply calls it (flags.go
\* imports the values package under its former module path; the model takes
\* the package of this repository): the receiver and the value are both
\* dereferenced when they are pointers, then recv.Set(v), which panics on a
\* receiver that is not addressable and on a value of another type. Apply
\* drops the error SetValue returns.
SetValue(recv, iVal, mm) ==
    LET vt == IF Kind(iVal.t) = "Ptr" THEN Elem(iVal.t) ELSE iVal.t
    IN  IF Kind(recv.t) # "Ptr" THEN [st |-> "panic", mem |-> mm]
        ELSE IF vt # Elem(recv.t) THEN [st |-> "panic", mem |-> mm]
        ELSE [st |-> "ok", mem |-> [mm EXCEPT ![recv.loc] = iVal.v]]

\* how a call of Apply ends: err is "nil", "unknown flag", "could not read"
\* or "panic"; at is the index of the token it stopped at (0: none)
Ended(fl, mm, err, at) ==
    [flags |-> fl, mem |-> mm, err |-> err, at |-> at]

\* a token that Apply scans as a flag (line 69, negated)
IsFlagToken(a) ==
    HasPrefix(a, <<"-">>) /\ a # <<"-">>

\* mutant of AppendParameter: the token replaces the parameters kept so far
AppendParameterReplacing(fl, tok) ==
    Ok(<<>>, Put(fl, <<>>, StreamEntry(<<tok>>)))

\* fs.flags[""] = append(fs.Parameters(), tok)
AppendParameter(fl, tok) ==
    LET ps == Parameters(fl)
    IN  IF ps.st = "panic" THEN Panicked
        ELSE Ok(<<>>, Put(fl, <<>>, StreamEntry(Append(ps.v, tok))))

\* the parameter an unknown flag is kept as in permissive mode (line 79):
\* a single dash joined to the name left after trimming
UnknownParameter(arg) ==
    Join2(<<"-">>, arg)

\* whether the token after the flag at index i is taken as its value (line 86)
ValueTaken(args, i) ==
    i + 1 <= Len(args) /\ ~HasPrefix(args[i + 1], <<"-">>)

\* mutant of IsBoolTarget: the special case taken for a flag of any type
IsBoolTargetAnyType(to) ==
    TRUE

\* the test that guards the boolean special case (line 95), on the type of
\* what the map holds under the flag's name
IsBoolTarget(to) ==
    Kind(to) = "Bool"

\* how one pass of the loop body of Apply ends: err as in Ended, i the index
\* the pass leaves (the Go index plus one)
Passed(fl, mm, err, i) ==
    [flags |-> fl, mem |-> mm, err |-> err, i |-> i]

\* mutant of NextIndex: the index is not advanced
NextIndexStuck(i) ==
    i

\* the i++ of the for statement (line 67)
NextIndex(i) ==
    i + 1

\* one pass of the loop body of Flags.Apply at index i (lines 68-102)
ApplyIteration(args, i, fl, mm, ignoreUnknown) ==
    IF ~IsFlagToken(args[i]) THEN
        LET r == AppendParameter(fl, args[i])
        IN  IF r.st = "panic" THEN Passed(fl, mm, "panic", i)
            ELSE Passed(r.v, mm, "nil", i)
    ELSE
        LET arg == TrimLeft(args[i], "-")
        IN  IF arg \notin DOMAIN fl THEN
                IF ignoreUnknown THEN
                    LET r == AppendParameter(fl, UnknownParameter(arg))
                    IN  IF r.st = "panic" THEN Passed(fl, mm, "panic", i)
                        ELSE Passed(r.v, mm, "nil", i)
                ELSE Passed(fl, mm, "unknown flag", i)
            ELSE
                LET v      == fl[arg]
                    taken  == ValueTaken(args, i)
                    \* i++ (line 87)
                    j      == IF taken THEN i + 1 ELSE i
                    argVal == IF taken THEN args[i + 1] ELSE <<>>
                    to     == v.t
                    r      == ValueFromString(argVal, to)
                IN  IF r.st = "panic" THEN Passed(fl, mm, "panic", i)
                    ELSE IF r.st = "err" THEN
                        IF IsBoolTarget(to) THEN
                            \* iVal = true; i-- (lines 96-97)
                            LET w == SetValue(v, Ok(TBool, TRUE), mm)
                            IN  IF w.st = "panic" THEN Passed(fl, mm, "panic", i)
                                ELSE Passed(fl, w.mem, "nil", j - 1)
                        ELSE Passed(fl, mm, "could not read", i)
                    ELSE
                        LET w == SetValue(v, r, mm)
                        IN  IF w.st = "panic" THEN Passed(fl, mm, "panic", i)
                            ELSE Passed(fl, w.mem, "nil", j)

\* the loop of Flags.Apply from index i on
RECURSIVE ApplyFrom(_, _, _, _, _)
ApplyFrom(args, i, fl, mm, ignoreUnknown) ==
    IF i > Len(args) THEN Ended(fl, mm, "nil", 0)
    ELSE LET p == ApplyIteration(args, i, fl, mm, ignoreUnknown)
         IN  IF p.err # "nil" THEN Ended(p.flags, p.mem, p.err, i)
             ELSE ApplyFrom(args, NextIndex(p.i), p.flags, p.mem, ignoreUnknown)

\* Flags.Apply(args...)
ApplyResult(args, fl, mm, ignoreUnknown) ==
    ApplyFrom(args, 1, fl, mm, ignoreUnknown)

\* the values handed to AddFlag as v: an untyped nil, a nil *bool, a plain
\* int, a non-nil map, and pointers to the program variables
NilInterface == [id |-> "nil", kind |-> "Invalid", isNil |-> TRUE, loc |-> ""]
NilPointer   == [id |-> "(*bool)(nil)", kind |-> "Ptr", isNil |-> TRUE, loc |-> ""]
IntValue     == [id |-> "int", kind |-> "Int", isNil |-> FALSE, loc |-> ""]
MapValue     == [id |-> "map", kind |-> "Map", isNil |-> FALSE, loc |-> ""]
PointerTo(l) == [id |-> l, kind |-> "Ptr", isNil |-> FALSE, loc |-> l]

\* the kinds reflect.Value.IsNil accepts; it panics on every other kind
NilableKinds == {"Chan", "Func", "Interface", "Map", "Ptr", "Slice", "UnsafePointer"}

\* mutant of AddNames: a name already held is rebound before the error
RECURSIVE AddNamesOverwriting(_, _, _)
AddNamesOverwriting(names, fl, e) ==
    IF Len(names) = 0 THEN [flags |-> fl, err |-> "nil"]
    ELSE IF Head(names) \in DOMAIN fl
         THEN [flags |-> Put(fl, Head(names), e), err |-> "duplicate flag name"]
    ELSE AddNamesOverwriting(Tail(names), Put(fl, Head(names), e), e)

\* the loop of AddFlag over the names (lines 129-134): each name is stored as
\* soon as it is found free
RECURSIVE AddNames(_, _, _)
AddNames(names, fl, e) ==
    IF Len(names) = 0 THEN [flags |-> fl, err |-> "nil"]
    ELSE IF Head(names) \in DOMAIN fl THEN [flags |-> fl, err |-> "duplicate flag name"]
    ELSE AddNames(Tail(names), Put(fl, Head(names), e), e)

\* Flags.AddFlag(v, names...)
AddFlagResult(v, names, fl) ==
    IF Len(names) = 0 THEN [flags |-> fl, err |-> "flag name is missing"]
    ELSE IF v.kind = "Invalid" THEN [flags |-> fl, err |-> "is nil"]
    ELSE IF v.kind \notin NilableKinds THEN [flags |-> fl, err |-> "panic"]
    ELSE IF v.isNil THEN [flags |-> fl, err |-> "is nil"]
    ELSE IF v.kind # "Ptr" THEN [flags |-> fl, err |-> "is not a pointer"]
    ELSE AddNames(names, fl, PtrEntry(v.loc))

\* ---------------------------------------------------------------- commands

\* os.Args[0]
ProgName == <<"p">>

\* a Commands table maps a name to what is registered under it: "func",
\* "method", "help" (a help command), "nil" or "other" (neither func nor method)
EmptyTable == [n \in {} |-> "nil"]

\* mutant of findCommand: the empty name is never matched
findCommandNonEmpty(cmds, arg) ==
    {k \in DOMAIN cmds : k # <<>> /\ EqualFold(k, arg)}

\* Commands.findCommand: the keys that match ignoring case; the map is
\* ranged over in an unspecified order, so any of them may be returned
findCommand(cmds, arg) ==
    {k \in DOMAIN cmds : EqualFold(k, arg)}

\* how a call of Run ends. err is Apply's error, "no command given",
\* "not a known command", a "CONFIG ERROR", or "dispatched": the call reached
\* CallHelpCommand / CallMethod / CallFunc (via) with callArgs
RunEnded(fl, mm, err, cmd, callArgs, via) ==
    [flags |-> fl, mem |-> mm, err |-> err, cmd |-> cmd, callArgs |-> callArgs, via |-> via]

\* the outcomes of Commands.Run(args...) on the global registry. The key
\* findCommand returns is a key of cmds, so the "is not mapped" return
\* (line 45) is never taken; what CallHelpCommand, CallMethod and CallFunc do
\* with the arguments lies outside these files and is not modelled.
RunResults(cmds, args0, fl, mm, ignoreUnknown) ==
    LET args1 == IF Len(args0) > 0 /\ args0[1] = ProgName THEN Tail(args0) ELSE args0
        a     == ApplyResult(args1, fl, mm, ignoreUnknown)
        ps    == Parameters(a.flags)
    IN  IF a.err # "nil" THEN {RunEnded(a.flags, a.mem, a.err, <<>>, <<>>, "")}
        ELSE IF ps.st = "panic" THEN {RunEnded(a.flags, a.mem, "panic", <<>>, <<>>, "")}
        ELSE
            LET arg   == IF Len(ps.v) > 0 THEN ps.v[1] ELSE <<>>
                args  == IF Len(ps.v) > 0 THEN Tail(ps.v) ELSE ps.v
                found == findCommand(cmds, arg)
            IN  IF found = {} THEN
                    {RunEnded(a.flags, a.mem,
                              IF arg = <<>> THEN "no command given" ELSE "not a known command",
                              <<>>, <<>>, "")}
                ELSE
                    {RunEnded(a.flags, a.mem,
                              CASE cmds[cmd] = "nil" -> "CONFIG ERROR: nil"
                                [] cmds[cmd] \in {"help", "method", "func"} -> "dispatched"
                                [] OTHER -> "CONFIG ERROR: unknown type",
                              cmd,
                              IF cmds[cmd] \in {"help", "method", "func"} THEN args ELSE <<>>,
                              IF cmds[cmd] \in {"help", "method", "func"} THEN cmds[cmd] ELSE "")
                        : cmd \in found}

\* ---------------------------------------------------------------- actions

NoCall ==
    [op |-> "none", args |-> <<>>, v |-> "", names |-> <<>>, err |-> "", at |-> 0,
     cmds |-> EmptyTable, cmd |-> <<>>, callArgs |-> <<>>, via |-> "",
     typ |-> <<>>, res |-> Failed]

\* the positional parameters held by the registry (none when the empty name
\* holds something else)
Stream ==
    IF Parameters(flags).st = "ok" THEN Parameters(flags).v ELSE <<>>

StreamOf(fl) ==
    IF Parameters(fl).st = "ok" THEN Parameters(fl).v ELSE <<>>

\* all argument lists of at most n tokens drawn from toks
ArgLists(toks, n) ==
    UNION {[1..k -> toks] : k \in 0..n}

\* NewFlags(ignoreUnknown), with the program variables at their zero values
NewFlags(ignoreUnknown) ==
    /\ IgnoreUnknown = ignoreUnknown
    /\ flags = EmptyMap
    /\ mem = [l \in Locs |-> IF l = "Verbose" THEN FALSE ELSE 0]
    /\ call = NoCall

\* a caller calls fs.AddFlag(v, names...)
AddFlag(v, names) ==
    /\ call.op = "none"
    /\ LET r == AddFlagResult(v, names, flags)
       IN  /\ flags' = r.flags
           /\ call' = [NoCall EXCEPT !.op = "AddFlag", !.v = v.id, !.names = names,
                                     !.err = r.err]
    /\ UNCHANGED <<IgnoreUnknown, mem>>

\* a caller calls fs.Apply(args...)
Apply(args) ==
    /\ call.op = "none"
    /\ LET r == ApplyResult(args, flags, mem, IgnoreUnknown)
       IN  /\ Len(StreamOf(r.flags)) <= MaxParams
           /\ flags' = r.flags
           /\ mem' = r.mem
           /\ call' = [NoCall EXCEPT !.op = "Apply", !.args = args, !.err = r.err,
                                     !.at = r.at]
    /\ UNCHANGED IgnoreUnknown

\* a caller calls cmds.Run(args...)
Run(cmds, args) ==
    /\ call.op = "none"
    /\ \E r \in RunResults(cmds, args, flags, mem, IgnoreUnknown) :
           /\ Len(StreamOf(r.flags)) <= MaxParams
           /\ flags' = r.flags
           /\ mem' = r.mem
           /\ call' = [NoCall EXCEPT !.op = "Run", !.args = args, !.err = r.err,
                                     !.cmds = cmds, !.cmd = r.cmd,
                                     !.callArgs = r.callArgs, !.via = r.via]
    /\ UNCHANGED IgnoreUnknown

\* the call's result is with the caller, who goes on; a panic ends the program
Return ==
    /\ call.op \notin {"none", "Applying"}
    /\ call.err # "panic"
    /\ call' = NoCall
    /\ UNCHANGED <<IgnoreUnknown, flags, mem>>

\* ---------------------------------------------------------------- Spec

\* the flag registry on its own: tokens -v, --x, -- and foo, names v, x and ""
Tokens == { <<"-","v">>, <<"-","-","x">>, <<"-","-">>, <<"f","o","o">> }
Names  == { <<"v">>, <<"x">>, <<>> }
Values == { NilInterface, NilPointer, IntValue, MapValue,
            PointerTo("Verbose"), PointerTo("Count") }

NameLists(names, n) ==
    UNION {[1..k -> names] : k \in 0..n}

Init ==
    \E b \in BOOLEAN : NewFlags(b)

Next ==
    \/ \E v \in Values, names \in NameLists(Names, MaxNames) : AddFlag(v, names)
    \/ \E args \in ArgLists(Tokens, MaxArgs) : Apply(args)
    \/ Return

Spec == Init /\ [][Next]_vars

\* ---------------------------------------------------------------- SpecCount

\* the registry with an integer flag: tokens -n, 2 and foo, the name n
CountTokens == { <<"-","n">>, <<"2">>, <<"f","o","o">> }
CountNames  == { <<"n">> }
CountValues == { PointerTo("Count"), PointerTo("Verbose") }

NextCount ==
    \/ \E v \in CountValues, names \in NameLists(CountNames, MaxNames) : AddFlag(v, names)
    \/ \E args \in ArgLists(CountTokens, MaxArgs) : Apply(args)
    \/ Return

SpecCount == Init /\ [][NextCount]_vars

\* ---------------------------------------------------------------- SpecValue

\* flags and the token after them: tokens -v, -n, a lone dash and the
\* boolean literal false; v is the one name registered, -n stays unknown
falseLiteral == <<"f","a","l","s","e">>
ValueTokens == { <<"-","v">>, <<"-","n">>, <<"-">>, falseLiteral }
ValueNames  == { <<"v">> }

NextValue ==
    \/ \E v \in CountValues, names \in NameLists(ValueNames, MaxNames) : AddFlag(v, names)
    \/ \E args \in ArgLists(ValueTokens, MaxArgs) : Apply(args)
    \/ Return

SpecValue == Init /\ [][NextValue]_vars

\* ---------------------------------------------------------------- SpecLoop

\* the loop of Apply pass by pass: call.op is "Applying" while the loop runs,
\* call.at the index i of the for statement (the Go index plus one)

\* fs.Apply(args...) is called: i := 0
ApplyStart(args) ==
    /\ call.op = "none"
    /\ Len(Stream) + Len(args) <= MaxParams
    /\ call' = [NoCall EXCEPT !.op = "Applying", !.args = args, !.at = 1]
    /\ UNCHANGED <<IgnoreUnknown, flags, mem>>

\* i < len(args): one pass of the loop body, then i++ or a return
ApplyStep ==
    /\ call.op = "Applying"
    /\ call.at <= Len(call.args)
    /\ LET p == ApplyIteration(call.args, call.at, flags, mem, IgnoreUnknown)
       IN  /\ flags' = p.flags
           /\ mem' = p.mem
           /\ call' = IF p.err # "nil"
                      THEN [call EXCEPT !.op = "Apply", !.err = p.err]
                      ELSE [call EXCEPT !.at = NextIndex(p.i)]
    /\ UNCHANGED IgnoreUnknown

\* i >= len(args): return nil
ApplyExit ==
    /\ call.op = "Applying"
    /\ call.at > Len(call.args)
    /\ call' = [call EXCEPT !.op = "Apply", !.err = "nil", !.at = 0]
    /\ UNCHANGED <<IgnoreUnknown, flags, mem>>

LoopTokens == { <<"-","v">>, falseLiteral, <<"f","o","o">> }
LoopNames  == { <<"v">> }

NextLoop ==
    \/ \E v \in CountValues, names \in NameLists(LoopNames, 1) : AddFlag(v, names)
    \/ \E args \in ArgLists(LoopTokens, MaxArgs) : ApplyStart(args)
    \/ ApplyStep
    \/ ApplyExit
    \/ Return

\* the loop is sequential code: once entered it keeps running
SpecLoop ==
    Init /\ [][NextLoop]_vars /\ WF_vars(ApplyStep) /\ WF_vars(ApplyExit)

\* ---------------------------------------------------------------- SpecRun

\* the dispatcher on the global registry: var GlobalFlags = flags.NewFlags(true)
GlobalFlags ==
    NewFlags(TRUE)

greet == <<"g","r","e","e","t">>
loud  == <<"l","o","u","d">>
World == <<"W","o","r","l","d">>

RunTokens == { greet, <<"-">> \o loud, World, ProgName }
RunNames  == { loud }
RunValues == { PointerTo("Verbose") }

\* the command table {"greet": func(name string)}
GreetTable == [n \in {greet} |-> "func"]

Tables == { GreetTable }

NextRun ==
    \/ \E v \in RunValues, names \in NameLists(RunNames, 1) : AddFlag(v, names)
    \/ \E cmds \in Tables, args \in ArgLists(RunTokens, MaxArgs) : Run(cmds, args)
    \/ Return

SpecRun == GlobalFlags /\ [][NextRun]_vars

\* ---------------------------------------------------------------- SpecDispatch

\* command resolution on the global registry: the command in three casings
\* and a name no table holds
Build      == <<"B","u","i","l","d">>
BUILD      == <<"B","U","I","L","D">>
build      == <<"b","u","i","l","d">>
test       == <<"t","e","s","t">>

DispatchTokens == { Build, BUILD, build, test }

\* {"Build": func}
BuildTable == [n \in {Build} |-> "func"]
\* {"": func, "Build": method}: an entry under the empty name
EmptyNameTable == [n \in {<<>>, Build} |-> IF n = <<>> THEN "func" ELSE "method"]
\* {"build": func, "Build": method}: two keys that differ in letter case only
CaseTable == [n \in {build, Build} |-> IF n = build THEN "func" ELSE "method"]

DispatchTables == { BuildTable, EmptyNameTable, CaseTable }

NextDispatch ==
    \/ \E cmds \in DispatchTables, args \in ArgLists(DispatchTokens, MaxArgs) :
           Run(cmds, args)
    \/ Return

SpecDispatch == GlobalFlags /\ [][NextDispatch]_vars

\* ---------------------------------------------------------------- SpecNoCommand

\* Run with and without a command token: the program name, a global flag
\* and one command, on a table with and a table without an entry keyed ""
NoCommandTokens == { ProgName, <<"-">> \o loud, build }

NoCommandTables == { BuildTable, EmptyNameTable }

NextNoCommand ==
    \/ \E v \in RunValues, names \in NameLists(RunNames, 1) : AddFlag(v, names)
    \/ \E cmds \in NoCommandTables, args \in ArgLists(NoCommandTokens, MaxArgs) :
           Run(cmds, args)
    \/ Return

SpecNoCommand == GlobalFlags /\ [][NextNoCommand]_vars

\* ---------------------------------------------------------------- SpecCoerce

\* the coercion engine on its own: tokens over the letters a, 1 and the
\* delimiter, coerced to each type of CoerceTypes
Alphabet == {"a", "1", ","}

CoerceTokens ==
    UNION {[1..k -> Alphabet] : k \in 0..MaxLen}

Scalars == {TBool, TInt, TInt64, TFloat64, TString}

CoerceTypes ==
    Scalars \cup {PtrTo(t) : t \in Scalars} \cup {SliceOf(t) : t \in Scalars}
        \cup {PtrTo(SliceOf(TString)), TMap, TChan}

\* a caller calls values.ValueFromString(s, t)
Coerce(s, t) ==
    /\ call.op = "none"
    /\ call' = [NoCall EXCEPT !.op = "ValueFromString", !.args = <<s>>, !.typ = t,
                              !.res = ValueFromString(s, t)]
    /\ UNCHANGED <<IgnoreUnknown, flags, mem>>

NextCoerce ==
    \/ \E s \in CoerceTokens, t \in CoerceTypes : Coerce(s, t)
    \/ Return

SpecCoerce == GlobalFlags /\ [][NextCoerce]_vars

\* ---------------------------------------------------------------- claims

\* name is bound to a program variable by AddFlag
Registered(fl, name) ==
    name \in DOMAIN fl /\ Kind(fl[name].t) = "Ptr"

\* the registry without its positional parameters
ClearStream(fl) ==
    IF <<>> \in DOMAIN fl /\ fl[<<>>].t = SliceOf(TString)
    THEN [n \in (DOMAIN fl) \ {<<>>} |-> fl[n]]
    ELSE fl

\* the index of the first token of args that is a flag marker with a name
\* AddFlag has not registered; 0 when there is none
FirstUnknown(args, fl) ==
    LET unknown == {k \in 1..Len(args) :
                       IsFlagToken(args[k]) /\ ~Registered(fl, TrimLeft(args[k], "-"))}
    IN  IF unknown = {} THEN 0
        ELSE CHOOSE k \in unknown : \A m \in unknown : k <= m

\* C1: for a registered boolean flag, Apply of the flag followed by a token
\* that is neither a flag marker nor a boolean literal returns no error, sets
\* the bound variable to true and leaves the following token in the
\* positional stream.
C1_BoolFlagKeepsUnparsableToken ==
    [][ (/\ call'.op = "Apply"
         /\ Len(call'.args) = 2
         /\ IsFlagToken(call'.args[1])
         /\ Registered(flags, TrimLeft(call'.args[1], "-"))
         /\ Elem(flags[TrimLeft(call'.args[1], "-")].t) = TBool
         /\ ~HasPrefix(call'.args[2], <<"-">>)
         /\ ~ParseBool(call'.args[2]).ok
         /\ Parameters(flags).st = "ok")
        => (/\ call'.err = "nil"
            /\ mem'[flags[TrimLeft(call'.args[1], "-")].loc] = TRUE
            /\ StreamOf(flags') = Append(Stream, call'.args[2])) ]_vars

\* C3: an AddFlag call that fails on a name already registered leaves the
\* registry exactly as it was before the call.
C3_AddFlagAtomic ==
    [][ (call'.op = "AddFlag" /\ call'.err = "duplicate flag name")
        => flags' = flags ]_vars

\* C5: in permissive mode, an Apply whose tokens are all positional or flag
\* markers with unregistered names returns no error and appends every token
\* to the positional stream as it was given, in arrival order.
C5_UnknownFlagKeptVerbatim ==
    [][ (/\ call'.op = "Apply"
         /\ IgnoreUnknown
         /\ Parameters(flags).st = "ok"
         /\ \A k \in 1..Len(call'.args) :
                \/ ~IsFlagToken(call'.args[k])
                \/ ~Registered(flags, TrimLeft(call'.args[k], "-")))
        => (/\ call'.err = "nil"
            /\ StreamOf(flags') = Stream \o call'.args) ]_vars

\* C6: AddFlag with a nil or non-pointer location returns an error value,
\* never panics, and leaves the registry unchanged.
C6_AddFlagRejectsNonPointer ==
    [][ (call'.op = "AddFlag" /\ call'.v \in {"nil", "(*bool)(nil)", "int", "map"})
        => (/\ call'.err \notin {"nil", "panic"}
            /\ flags' = flags) ]_vars

\* C8: after a successful Apply, Parameters() is what it was before the call
\* followed by the positional tokens the call itself produces, in order.
C8_ParametersAppendOnly ==
    [][ (call'.op = "Apply" /\ call'.err = "nil")
        => (/\ Parameters(flags).st = "ok"
            /\ Parameters(flags').st = "ok"
            /\ Parameters(flags').v =
                   Parameters(flags).v
                       \o StreamOf(ApplyResult(call'.args, ClearStream(flags), mem,
                                               IgnoreUnknown).flags)) ]_vars

\* C9: in strict mode, an Apply that reaches a flag marker whose name is not
\* registered returns the unknown-flag error at that token, with the
\* registry and the variables as the tokens before it left them.
C9_StrictStopsAtUnknownFlag ==
    [][ (/\ call'.op = "Apply"
         /\ ~IgnoreUnknown
         /\ FirstUnknown(call'.args, flags) > 0
         /\ ApplyResult(SubSeq(call'.args, 1, FirstUnknown(call'.args, flags) - 1),
                        flags, mem, FALSE).err = "nil")
        => (LET k   == FirstUnknown(call'.args, flags)
                pre == ApplyResult(SubSeq(call'.args, 1, k - 1), flags, mem, FALSE)
            IN  /\ call'.err = "unknown flag"
                /\ call'.at = k
                /\ flags' = pre.flags
                /\ mem' = pre.mem) ]_vars

GreetArgs == <<greet, <<"-">> \o loud, World>>

\* the scenario of C2: Run(greet, -loud, World) on the table {greet} returns
\* to the caller, on a permissive registry that has not registered loud
GreetScenario ==
    /\ call'.op = "Run"
    /\ call'.cmds = GreetTable
    /\ call'.args = GreetArgs
    /\ IgnoreUnknown
    /\ loud \notin DOMAIN flags
    /\ Parameters(flags).st = "ok"

C4_RunStateless ==
    [][ call'.op = "Run"
        => \E r \in RunResults(call'.cmds, call'.args, ClearStream(flags), mem,
                               IgnoreUnknown) :
               /\ r.err = call'.err
               /\ r.cmd = call'.cmd
               /\ r.callArgs = call'.callArgs ]_vars

\* the number of delimiters in s
RECURSIVE Delimiters(_)
Delimiters(s) ==
    IF Len(s) = 0 THEN 0
    ELSE (IF Head(s) = SliceDelimiter THEN 1 ELSE 0) + Delimiters(Tail(s))

\* C7: a successful coercion to a sequence type yields one element for each
\* delimited part of the token, the parts coerced in order, and no element
\* at all for the empty token.
C7_SliceFromDelimitedToken ==
    (call.op = "ValueFromString" /\ Kind(call.typ) = "Slice" /\ call.res.st = "ok")
        => (LET s == call.args[1]
                n == IF Len(s) = 0 THEN 0 ELSE Delimiters(s) + 1
            IN  /\ Len(call.res.v) = n
                /\ \A k \in 1..n :
                       call.res.v[k]
                           = ValueFromString(Split(s, SliceDelimiter)[k], Elem(call.typ)).v)

\* C10: when Apply reaches a registered non-boolean flag whose value token
\* cannot be coerced to the flag's type, it returns the error at that flag,
\* and the registry and the variables are as the tokens before it left them:
\* the bound variable keeps its value and no later token is applied.
C10_CoercionFailureStops ==
    [][ call'.op = "Apply"
        => \A k \in 1..(Len(call'.args) - 1) :
               (/\ IsFlagToken(call'.args[k])
                /\ Registered(flags, TrimLeft(call'.args[k], "-"))
                /\ Elem(flags[TrimLeft(call'.args[k], "-")].t) # TBool
                /\ ~HasPrefix(call'.args[k + 1], <<"-">>)
                /\ ValueFromString(call'.args[k + 1],
                                   flags[TrimLeft(call'.args[k], "-")].t).st = "err"
                /\ ApplyResult(SubSeq(call'.args, 1, k - 1), flags, mem,
                               IgnoreUnknown).err = "nil")
               => (LET pre == ApplyResult(SubSeq(call'.args, 1, k - 1), flags, mem,
                                          IgnoreUnknown)
                   IN  /\ call'.err = "could not read"
                       /\ call'.at = k
                       /\ flags' = pre.flags
                       /\ mem' = pre.mem) ]_vars

\* C10 witness: -n foo foo has failed at -n on an integer flag that an
\* earlier call had set to 2; the variable is still 2 and no foo was kept
C10_Witness ==
    /\ call.op = "Apply"
    /\ call.args = << <<"-","n">>, <<"f","o","o">>, <<"f","o","o">> >>
    /\ call.err = "could not read"
    /\ call.at = 1
    /\ Registered(flags, <<"n">>)
    /\ flags[<<"n">>].loc = "Count"
    /\ mem["Count"] = 2
    /\ Stream = <<>>

\* the value Apply gives the variable l for its flag given without a value:
\* true for a bool, the zero value for an int
BareValue(l) ==
    IF LocType(l) = TBool THEN TRUE ELSE 0

\* C11: an AddFlag of a valid pointer under a name that is already registered
\* returns the duplicate-name error; the name stays bound to its original
\* variable, no variable changes, and an Apply of that flag after the failed
\* call writes the original variable and no other.
C11_DuplicateKeepsOriginal ==
    [][ (/\ call'.op = "AddFlag"
         /\ call'.v \in Locs)
        => \A k \in 1..Len(call'.names) :
               Registered(flags, call'.names[k])
               => (LET n == call'.names[k]
                       a == ApplyResult(<< <<"-","-">> \o n >>, flags', mem',
                                        IgnoreUnknown)
                   IN  /\ call'.err = "duplicate flag name"
                       /\ flags'[n] = flags[n]
                       /\ mem' = mem
                       /\ a.err = "nil"
                       /\ a.mem = [mem EXCEPT ![flags[n].loc]
                                                  = BareValue(flags[n].loc)]) ]_vars

\* C11 witness: v is bound to Verbose, which an Apply has set to true; an
\* AddFlag of &Count under v has been rejected, Verbose is still true and
\* Count still 0
C11_Witness ==
    /\ call.op = "AddFlag"
    /\ call.v = "Count"
    /\ call.names = << <<"v">> >>
    /\ call.err = "duplicate flag name"
    /\ Registered(flags, <<"v">>)
    /\ flags[<<"v">>].loc = "Verbose"
    /\ mem["Verbose"] = TRUE
    /\ mem["Count"] = 0

\* a Run step in which Apply returned no error and Parameters() was read
RunReachedLookup ==
    /\ call'.op = "Run"
    /\ call'.err \notin {"panic", "could not read", "unknown flag"}

\* no two names of the table are equal ignoring case
FoldDistinct(cmds) ==
    \A a \in DOMAIN cmds, b \in DOMAIN cmds : EqualFold(a, b) => a = b

\* the casings of the command name Build
BuildCasings == {Build, BUILD, build}

\* C12: on a table whose names are pairwise distinct ignoring case, Run
\* resolves the command token (the first positional token) to the entry
\* whose name equals it ignoring case and calls that entry's handler: build,
\* BUILD and Build all select the entry Build; a token that matches no name
\* fails as an unknown command and no handler is called.
C12_ResolvesIgnoringCase ==
    [][ (/\ RunReachedLookup
         /\ FoldDistinct(call'.cmds)
         /\ Len(StreamOf(flags')) > 0)
        => (LET tok   == StreamOf(flags')[1]
                match == {k \in DOMAIN call'.cmds : EqualFold(k, tok)}
            IN  /\ (tok \in BuildCasings /\ Build \in DOMAIN call'.cmds)
                       => call'.cmd = Build
                /\ match # {}
                       => (/\ call'.cmd \in match
                           /\ call'.err = "dispatched"
                           /\ call'.via = call'.cmds[call'.cmd]
                           /\ call'.callArgs = Tail(StreamOf(flags')))
                /\ match = {}
                       => (/\ tok \notin BuildCasings
                           /\ call'.err = "not a known command"
                           /\ call'.via = "") ) ]_vars

\* C12 witness: Run(BUILD) on {Build} has called the handler of Build
C12_Witness ==
    /\ call.op = "Run"
    /\ call.cmds = BuildTable
    /\ call.args = <<BUILD>>
    /\ call.err = "dispatched"
    /\ call.cmd = Build
    /\ call.via = "func"

\* C13: when the positional stream is empty once the global flags are
\* applied, Run takes the empty string as the command name: it calls the
\* handler of the entry keyed "" when the table has one, with no arguments,
\* and otherwise fails with the no-command-given error and calls no handler.
C13_EmptyCommandName ==
    [][ (/\ RunReachedLookup
         /\ Len(StreamOf(flags')) = 0)
        => IF <<>> \in DOMAIN call'.cmds
           THEN /\ call'.err = "dispatched"
                /\ call'.cmd = <<>>
                /\ call'.via = call'.cmds[<<>>]
                /\ call'.callArgs = <<>>
           ELSE /\ call'.err = "no command given"
                /\ call'.via = "" ]_vars

\* C13 witness: Run(-loud), loud a registered global flag, on a table with
\* an entry keyed "": the flag is set, the stream is empty and the handler
\* of "" has been called
C13_Witness ==
    /\ call.op = "Run"
    /\ call.cmds = EmptyNameTable
    /\ call.args = << <<"-">> \o loud >>
    /\ call.err = "dispatched"
    /\ call.cmd = <<>>
    /\ call.via = "func"
    /\ Stream = <<>>
    /\ mem["Verbose"] = TRUE

\* C18: command resolution is deterministic: a Run resolves the entry every
\* Run of the same table and tokens on the same registry resolves, and a
\* command token equal to one of the table's keys resolves to that key's
\* handler, even when another key differs from it in letter case only.
C18_ResolutionDeterministic ==
    [][ (/\ RunReachedLookup
         /\ Len(StreamOf(flags')) > 0)
        => (/\ \A r \in RunResults(call'.cmds, call'.args, flags, mem, IgnoreUnknown) :
                   r.cmd = call'.cmd /\ r.via = call'.via
            /\ StreamOf(flags')[1] \in DOMAIN call'.cmds
                   => (/\ call'.cmd = StreamOf(flags')[1]
                       /\ call'.via = call'.cmds[StreamOf(flags')[1]])) ]_vars

\* the state in which the loop of an Apply of args reaches the token at k, a
\* flag marker: what the tokens before k leave (a marker is never taken as
\* the value of the flag before it)
Before(args, k, fl, mm, ignoreUnknown) ==
    ApplyResult(SubSeq(args, 1, k - 1), fl, mm, ignoreUnknown)

\* the token at k of args is the marker of a flag bound to a variable of type t
FlagAt(args, k, fl, t) ==
    /\ IsFlagToken(args[k])
    /\ Registered(fl, TrimLeft(args[k], "-"))
    /\ Elem(fl[TrimLeft(args[k], "-")].t) = t

\* the call ends as an Apply of the tokens after k ends from st
EndsAsFrom(args, k, fl, mm, ignoreUnknown, err, flEnd, mmEnd) ==
    LET rest == ApplyResult(SubSeq(args, k + 1, Len(args)), fl, mm, ignoreUnknown)
    IN  /\ err = rest.err
        /\ flEnd = rest.flags
        /\ mmEnd = rest.mem

\* C14: when Apply reaches a registered boolean flag that is the last token
\* or is followed by another flag marker, it sets the bound variable to true,
\* takes no token as the value and adds nothing to the positional stream;
\* when the flag is followed by a boolean literal it sets the variable to the
\* literal's value and the literal does not reach the positional stream.
C14_BoolFlagValue ==
    [][ call'.op = "Apply"
        => \A k \in 1..Len(call'.args) :
               (/\ Before(call'.args, k, flags, mem, IgnoreUnknown).err = "nil"
                /\ FlagAt(call'.args, k, flags, TBool))
               => (LET pre == Before(call'.args, k, flags, mem, IgnoreUnknown)
                       loc == flags[TrimLeft(call'.args[k], "-")].loc
                   IN  /\ (k = Len(call'.args) \/ IsFlagToken(call'.args[k + 1]))
                              => EndsAsFrom(call'.args, k, pre.flags,
                                            [pre.mem EXCEPT ![loc] = TRUE],
                                            IgnoreUnknown, call'.err, flags', mem')
                       /\ (k < Len(call'.args) /\ ParseBool(call'.args[k + 1]).ok)
                              => EndsAsFrom(call'.args, k + 1, pre.flags,
                                            [pre.mem EXCEPT ![loc]
                                                 = ParseBool(call'.args[k + 1]).val],
                                            IgnoreUnknown, call'.err, flags', mem')) ]_vars

\* C14 witness: v is bound to Verbose; Apply(-v, -v, false) has set it to
\* true at the first -v and to false at the second, and the stream is empty
C14_Witness ==
    /\ call.op = "Apply"
    /\ call.args = << <<"-","v">>, <<"-","v">>, falseLiteral >>
    /\ call.err = "nil"
    /\ Registered(flags, <<"v">>)
    /\ flags[<<"v">>].loc = "Verbose"
    /\ mem["Verbose"] = FALSE
    /\ Stream = <<>>

\* C15: when Apply reaches a registered flag, the next token is taken as its
\* value exactly when there is one and it is not a flag marker, a flag marker
\* being a token that starts with a dash and is not the lone dash: a lone
\* dash after a registered non-boolean flag is taken as that flag's value
\* and does not reach the positional stream.
C15_ValueTakenUnlessMarker ==
    [][ call'.op = "Apply"
        => \A k \in 1..Len(call'.args) :
               (/\ Before(call'.args, k, flags, mem, IgnoreUnknown).err = "nil"
                /\ FlagAt(call'.args, k, flags, TInt))
               => (LET pre   == Before(call'.args, k, flags, mem, IgnoreUnknown)
                       bound == flags[TrimLeft(call'.args[k], "-")]
                       taken == k < Len(call'.args) /\ ~IsFlagToken(call'.args[k + 1])
                       r     == ValueFromString(IF taken THEN call'.args[k + 1] ELSE <<>>,
                                                bound.t)
                   IN  IF r.st = "ok"
                       THEN EndsAsFrom(call'.args, IF taken THEN k + 1 ELSE k, pre.flags,
                                       [pre.mem EXCEPT ![bound.loc] = r.v],
                                       IgnoreUnknown, call'.err, flags', mem')
                       ELSE /\ call'.err = "could not read"
                            /\ call'.at = k
                            /\ flags' = pre.flags
                            /\ mem' = pre.mem) ]_vars

\* C16: ValueFromString never aborts, and a value it returns has exactly the
\* type it was asked for: no pointer for a non-pointer type, no integer of
\* another width, so that the pointer case wraps a value of the pointee type.
C16_ResultHasRequestedType ==
    call.op = "ValueFromString"
        => (/\ call.res.st # "panic"
            /\ call.res.st = "ok" => call.res.t = call.typ)

\* a token made of dashes only, two at least
DashesOnly(a) ==
    IsFlagToken(a) /\ TrimLeft(a, "-") = <<>>

\* C17: the positional stream is never reached as a flag binding: whatever
\* AddFlag and Apply calls came before, Apply handles a token made of dashes
\* only as a flag of unknown name (the unknown-flag error in strict mode, kept
\* as a parameter in permissive mode), and after every call the registry
\* still holds the stream, under no flag's name, for Parameters() to return.
C17_StreamIsNoFlag ==
    [][ /\ Parameters(flags').st = "ok"
        /\ call'.op = "AddFlag" => StreamOf(flags') = Stream
        /\ call'.op = "Apply"
               => \A k \in 1..Len(call'.args) :
                      (/\ Before(call'.args, k, flags, mem, IgnoreUnknown).err = "nil"
                       /\ DashesOnly(call'.args[k]))
                      => (LET pre == Before(call'.args, k, flags, mem, IgnoreUnknown)
                          IN  IF IgnoreUnknown
                              THEN EndsAsFrom(call'.args, k,
                                              Put(pre.flags, <<>>,
                                                  StreamEntry(Append(StreamOf(pre.flags),
                                                                     UnknownParameter(<<>>)))),
                                              pre.mem, IgnoreUnknown,
                                              call'.err, flags', mem')
                              ELSE /\ call'.err = "unknown flag"
                                   /\ call'.at = k
                                   /\ flags' = pre.flags
                                   /\ mem' = pre.mem) ]_vars

\* C19: Apply terminates on every token list: every pass of the loop that
\* does not return leaves the index at least one token further, two exactly
\* when the token after the flag was taken as its value, so the index never
\* goes back and no token is processed again; a loop once entered ends.
C19_ApplyTerminates ==
    /\ [][ (call.op = "Applying" /\ call'.op = "Applying")
             => (/\ call'.at \in {call.at + 1, call.at + 2}
                 /\ call'.at = call.at + 2
                        => (/\ IsFlagToken(call.args[call.at])
                            /\ ValueTaken(call.args, call.at))
                 /\ call'.at <= Len(call.args) + 1) ]_vars
    /\ (call.op = "Applying") ~> (call.op = "Apply")

\* C19 witness: v is bound to Verbose; Apply(-v, false, foo) has ended with
\* no error, false taken as the value of -v and foo kept as a parameter
C19_Witness ==
    /\ call.op = "Apply"
    /\ call.args = << <<"-","v">>, falseLiteral, <<"f","o","o">> >>
    /\ call.err = "nil"
    /\ Registered(flags, <<"v">>)
    /\ flags[<<"v">>].loc = "Verbose"
    /\ mem["Verbose"] = FALSE
    /\ Stream = << <<"f","o","o">> >>

====
